---- MODULE Spec2Model ----
(***************************************************************************)
(* Model of src/AI_movie_recommendations_openrouter.py: the class          *)
(* MovieRecommendationOpenrouter (prompt construction, the HTTP exchange   *)
(* of get_movie_recommendations, the genre and mood wrappers) and the      *)
(* interactive loop interactive_mode.                                      *)
(*                                                                         *)
(* A text (Python str) is a sequence of characters, each a one-character   *)
(* string.  The fixed Cyrillic literals of the source are written          *)
(* transliterated; a literal of a prompt is one token of the sequence.     *)
(* An Optional value is None or Some(v).                                   *)
(***************************************************************************)
EXTENDS Integers, Sequences, FiniteSets, TLC

VARIABLES
    state,          \* interactive_mode: "awaiting" (inside while True) or "stopped" (after break)
    pc,             \* position: "command", "arg1", "arg2" (blocked in input()), "inflight" (blocked in requests.post), "idle" (no call active)
    command,        \* interactive_mode local `command`
    arg1,           \* first local read by a mode command (genre / mood / preferences)
    arg2,           \* second local read by a mode command (mood / time / liked_input)
    lines,          \* the raw lines input() returned in the current iteration
    liked_movies,   \* interactive_mode local `liked_movies`
    method,         \* the public method called directly, "" inside interactive_mode
    args,           \* the arguments of that direct call
    gmr,            \* the arguments of the active call of get_movie_recommendations
    request,        \* the POST in flight: arguments of requests.post
    response,       \* the outcome of the last POST
    result,         \* how the last call ended: returned value or exception raised
    out,            \* what the current iteration (or call) has printed
    posts,          \* POSTs sent since the current iteration (or call) began
    calls,          \* calls of get_movie_recommendations since it began
    event           \* what the last step was

vars == <<state, pc, command, arg1, arg2, lines, liked_movies, method, args, gmr,
          request, response, result, out, posts, calls, event>>

----------------------------------------------------------------------------
(* Bounds *)

MaxLen == 2         \* longest free text typed or passed
MaxTitles == 2      \* longest liked-movies list passed directly
MaxChoices == 2     \* longest "choices" list of a response body
MaxArgLen == 1      \* longest short answer typed to the second and third prompt

----------------------------------------------------------------------------
(* Optional values and texts *)

None == [isNone |-> TRUE]
Some(v) == [isNone |-> FALSE, val |-> v]

\* Python truth value of an Optional[str] or Optional[list]
Truthy(x) == ~x.isNone /\ x.val # <<>>

Char == {"a", "A", " ", ","}
Whitespace == {" "}

StrUpTo(n) == UNION {[1..k -> Char] : k \in 0..n}
Text == StrUpTo(MaxLen)

\* str.lower() on the characters that occur
LowerChar(c) ==
    CASE c = "A" -> "a"
      [] c = "S" -> "s"
      [] c = "T" -> "t"
      [] c = "O" -> "o"
      [] c = "P" -> "p"
      [] c = "Z" -> "z"
      [] c = "N" -> "n"
      [] c = "R" -> "r"
      [] OTHER -> c

Lower(s) == [i \in 1..Len(s) |-> LowerChar(s[i])]

RECURSIVE LStrip(_)
LStrip(s) == IF s # <<>> /\ Head(s) \in Whitespace THEN LStrip(Tail(s)) ELSE s

RECURSIVE RStrip(_)
RStrip(s) ==
    IF s # <<>> /\ s[Len(s)] \in Whitespace
    THEN RStrip(SubSeq(s, 1, Len(s) - 1))
    ELSE s

\* str.strip()
Strip(s) == RStrip(LStrip(s))

\* str.split(','): the segments between the separators, empty ones kept
RECURSIVE Split(_, _)
Split(s, c) ==
    IF \A i \in 1..Len(s) : s[i] # c
    THEN <<s>>
    ELSE LET i == CHOOSE j \in 1..Len(s) : s[j] = c /\ \A k \in 1..(j - 1) : s[k] # c
         IN  <<SubSeq(s, 1, i - 1)>> \o Split(SubSeq(s, i + 1, Len(s)), c)

CommaSpace == <<",", " ">>

JoinReversed(list, sep) ==
    IF list = <<>> THEN <<>>
    ELSE LET F[i \in 1..Len(list)] ==
                 IF i = 1 THEN list[1] ELSE list[i] \o sep \o F[i - 1]
         IN  F[Len(list)]

\* sep.join(list)
Join(list, sep) ==
    IF list = <<>> THEN <<>>
    ELSE LET F[i \in 1..Len(list)] ==
                 IF i = 1 THEN list[1] ELSE F[i - 1] \o sep \o list[i]
         IN  F[Len(list)]

----------------------------------------------------------------------------
(* MovieRecommendationOpenrouter: prompt construction *)

\* "Polzovatel ishchet filmy po sleduyushchim predpochteniyam: " (line 86)
BaseLine == <<"Polzovatel ishchet filmy po sleduyushchim predpochteniyam: ">>
\* "\n\nPolzovatelyu ponravilis sleduyushchie filmy: " (line 89)
LikedLine == <<"\n\nPolzovatelyu ponravilis sleduyushchie filmy: ">>
\* the steering phrase "... pohozhie po stilyu i tematike ..." (line 90)
SimilarSuffix == <<"\n\nPozhaluysta, porekomenduy filmy, pohozhie po stilyu i tematike na ponravivshiesya filmy, uchityvaya ego predpochteniya.">>
\* "... sootvetstvuyushchie etim predpochteniyam." (line 92)
MatchingSuffix == <<"\n\nPozhaluysta, porekomenduy filmy, sootvetstvuyushchie etim predpochteniyam.">>

CreateRecommendationPromptNotNone(user_preferences, liked) ==
    LET prompt == BaseLine \o user_preferences
    IN  IF ~liked.isNone
        THEN prompt \o LikedLine \o Join(liked.val, CommaSpace) \o SimilarSuffix
        ELSE prompt \o MatchingSuffix

\* _create_recommendation_prompt(user_preferences, liked_movies)
CreateRecommendationPrompt(user_preferences, liked) ==
    LET prompt == BaseLine \o user_preferences
    IN  IF Truthy(liked) /\ Len(liked.val) > 0
        THEN prompt \o LikedLine \o Join(liked.val, CommaSpace) \o SimilarSuffix
        ELSE prompt \o MatchingSuffix

\* "zhanr: " and ", nastroenie: " (lines 107, 109)
GenrePrefix == <<"zhanr: ">>
GenreMoodInfix == <<", nastroenie: ">>
\* "nastroenie: " and ", vremya prosmotra: " (lines 124, 126)
MoodPrefix == <<"nastroenie: ">>
MoodTimeInfix == <<", vremya prosmotra: ">>

GenrePreferencesNotNone(genre, mood) ==
    IF ~mood.isNone THEN GenrePrefix \o genre \o GenreMoodInfix \o mood.val
    ELSE GenrePrefix \o genre

\* the preference text of get_genre_based_recommendations(genre, mood)
GenrePreferences(genre, mood) ==
    IF Truthy(mood) THEN GenrePrefix \o genre \o GenreMoodInfix \o mood.val
    ELSE GenrePrefix \o genre

\* the preference text of get_mood_based_recommendations(mood, time_of_day)
MoodPreferences(mood, time_of_day) ==
    IF Truthy(time_of_day) THEN MoodPrefix \o mood \o MoodTimeInfix \o time_of_day.val
    ELSE MoodPrefix \o mood

----------------------------------------------------------------------------
(* MovieRecommendationOpenrouter: the HTTP exchange *)

ApiUrl == "https://openrouter.ai/api/v1/chat/completions"
ApiToken == "sk-or-v1-..."
SystemContent == "Ty - ekspert po rekomendatsii filmov. ... Rekomenduy 3-5 filmov ..."

\* the arguments of requests.post for a prompt
PostArgs(prompt) ==
    [url     |-> ApiUrl,
     headers |-> [Authorization |-> <<"Bearer ", ApiToken>>,
                  ContentType   |-> "application/json"],
     json    |-> [model       |-> "tngtech/deepseek-r1t-chimera:free",
                  messages    |-> << [role |-> "system", content |-> SystemContent],
                                     [role |-> "user",   content |-> prompt] >>,
                  temperature |-> "0.7",
                  max_tokens  |-> 1000],
     timeout |-> 30]

NoRequest == [url |-> ""]

\* texts a completion can carry
ReplyTexts == { <<>>, <<"A (2020) - desc">>, <<"B (1999) - desc">> }
\* "content" of a message: a JSON string or null
Contents == {None} \cup {Some(t) : t \in ReplyTexts}
Messages == {[role |-> "assistant"]} \cup {[role |-> "assistant", content |-> c] : c \in Contents}
Choices == {[index |-> 0]} \cup {[index |-> 0, message |-> m] : m \in Messages}
\* what follows the first element of "choices": a well-formed choice or a malformed one
FurtherChoices == {[index |-> 1], [index |-> 1, message |-> [role |-> "assistant", content |-> Some(<<"C (1980) - desc">>)]]}
ChoiceLists ==
    { <<>> } \cup
    UNION { {<<c>> \o rest : c \in Choices, rest \in [1..k -> FurtherChoices]} : k \in 0..(MaxChoices - 1) }
JsonObjects == {[id |-> "gen"]} \cup {[id |-> "gen", choices |-> cs] : cs \in ChoiceLists}
Bodies == {[json |-> FALSE]} \cup {[json |-> TRUE, data |-> d] : d \in JsonObjects}

StatusOk == 200
Statuses == {StatusOk, 201, 429, 500}

\* what requests.post can do: raise, or return a response
PostRaises == {"ConnectionError", "Timeout", "KeyboardInterrupt"}
Outcomes ==
    {[kind |-> "raise", exc |-> e] : e \in PostRaises}
    \cup {[kind |-> "response", status |-> s, body |-> b] : s \in Statuses \ {StatusOk}, b \in {[json |-> FALSE]}}
    \cup {[kind |-> "response", status |-> StatusOk, body |-> b] : b \in Bodies}

NoResponse == [kind |-> "none"]

Return(v, printed) == [raises |-> "none", value |-> v, printed |-> printed]
Raise(e) == [raises |-> e, value |-> None, printed |-> <<>>]
NoResult == [raises |-> "none", value |-> None, printed |-> <<>>, pending |-> TRUE]

LastChoice(choices) == choices[Len(choices)]

\* data['choices'][0]
FirstChoice(choices) == choices[1]

\* lines 69-78: the body of the try block once requests.post has ended with o
TryBody(o) ==
    IF o.kind = "raise" THEN Raise(o.exc)
    ELSE IF o.status = StatusOk
    THEN IF ~o.body.json THEN Raise("JSONDecodeError")
         ELSE LET data == o.body.data
              IN  IF "choices" \notin DOMAIN data THEN Raise("KeyError")
                  ELSE IF Len(data.choices) = 0 THEN Raise("IndexError")
                  ELSE LET choice == FirstChoice(data.choices)
                       IN  IF "message" \notin DOMAIN choice THEN Raise("KeyError")
                           ELSE IF "content" \notin DOMAIN choice.message THEN Raise("KeyError")
                           ELSE Return(choice.message.content, <<>>)
    ELSE Return(None, << [kind |-> "api_error", status |-> o.status] >>)

RequestExceptions == {"ConnectionError", "Timeout"}

\* what `except Exception` catches: every exception of the try block that
\* derives from Exception; KeyboardInterrupt derives from BaseException only
ExceptionClasses ==
    {"ConnectionError", "Timeout", "JSONDecodeError", "KeyError", "IndexError", "TypeError"}

\* lines 33-82: how get_movie_recommendations ends once requests.post has ended with o
GetMovieRecommendationsEnd(o) ==
    LET r == TryBody(o)
    IN  IF r.raises \in ExceptionClasses
        THEN Return(None, << [kind |-> "request_error", exc |-> r.raises] >>)
        ELSE r

----------------------------------------------------------------------------
(* get_movie_recommendations, from its call to the blocking requests.post *)

NoCall == [user_preferences |-> <<>>, liked_movies |-> None, active |-> FALSE]

\* lines 33-66: build the prompt and the payload, send the POST; n counts the
\* calls (and POSTs) made before this one
GmrBegin(user_preferences, liked, n) ==
    /\ gmr' = [user_preferences |-> user_preferences, liked_movies |-> liked, active |-> TRUE]
    /\ request' = PostArgs(CreateRecommendationPrompt(user_preferences, liked))
    /\ calls' = n + 1
    /\ posts' = n + 1
    /\ response' = NoResponse
    /\ result' = NoResult
    /\ pc' = "inflight"

----------------------------------------------------------------------------
(* The public methods called directly *)

\* liked-movies lists a caller passes
Titles == { <<>>, <<"a">>, <<"A", ",">>, <<" ", "a">> }
TitleLists == UNION {[1..k -> Titles] : k \in 0..MaxTitles}
OptTitleLists == {None} \cup {Some(l) : l \in TitleLists}
\* the optional second argument of a wrapper: None, the empty text, a short text
OptTexts == {None} \cup {Some(t) : t \in StrUpTo(1)}

NoArgs == [none |-> TRUE]

LoopIdle ==
    /\ UNCHANGED <<state, command, arg1, arg2, lines, liked_movies>>

InitApi ==
    /\ state = "not_started"
    /\ pc = "idle"
    /\ command = <<>>
    /\ arg1 = None
    /\ arg2 = None
    /\ lines = <<>>
    /\ liked_movies = <<>>
    /\ method = "__init__"
    /\ args = NoArgs
    /\ gmr = NoCall
    /\ request = NoRequest
    /\ response = NoResponse
    /\ result = NoResult
    /\ out = <<>>
    /\ posts = 0
    /\ calls = 0
    /\ event = "init"

\* _create_recommendation_prompt(p, l) called: it returns the prompt at once
CallCreatePrompt(p, l) ==
    /\ pc = "idle"
    /\ method' = "_create_recommendation_prompt"
    /\ args' = [user_preferences |-> p, liked_movies |-> l]
    /\ result' = Return(Some(CreateRecommendationPrompt(p, l)), <<>>)
    /\ event' = "returned"
    /\ out' = <<>>
    /\ posts' = 0
    /\ calls' = 0
    /\ gmr' = NoCall
    /\ request' = NoRequest
    /\ response' = NoResponse
    /\ pc' = "returned"
    /\ LoopIdle

\* get_movie_recommendations(p, l) called
CallGetMovieRecommendations(p, l) ==
    /\ pc = "idle"
    /\ method' = "get_movie_recommendations"
    /\ args' = [user_preferences |-> p, liked_movies |-> l]
    /\ GmrBegin(p, l, 0)
    /\ event' = "sent"
    /\ out' = <<>>
    /\ LoopIdle

\* get_genre_based_recommendations(genre, mood) called
CallGenre(genre, mood) ==
    /\ pc = "idle"
    /\ method' = "get_genre_based_recommendations"
    /\ args' = [genre |-> genre, mood |-> mood]
    /\ GmrBegin(GenrePreferences(genre, mood), None, 0)
    /\ event' = "sent"
    /\ out' = <<>>
    /\ LoopIdle

\* get_mood_based_recommendations(mood, time_of_day) called
CallMood(mood, time_of_day) ==
    /\ pc = "idle"
    /\ method' = "get_mood_based_recommendations"
    /\ args' = [mood |-> mood, time_of_day |-> time_of_day]
    /\ GmrBegin(MoodPreferences(mood, time_of_day), None, 0)
    /\ event' = "sent"
    /\ out' = <<>>
    /\ LoopIdle

\* requests.post ends with o: the call returns to its caller (or raises).  The
\* object holds no mutable state (lines 14-19), so one call on a fresh object
\* stands for every call.
ApiRespond(o) ==
    /\ pc = "inflight"
    /\ state = "not_started"
    /\ LET r == GetMovieRecommendationsEnd(o)
       IN  /\ result' = r
           /\ out' = out \o r.printed
    /\ response' = o
    /\ request' = NoRequest
    /\ gmr' = NoCall
    /\ args' = NoArgs
    /\ event' = "returned"
    /\ pc' = "returned"
    /\ UNCHANGED <<method, posts, calls>>
    /\ LoopIdle

NextApi ==
    \/ \E p \in Text, l \in OptTitleLists : CallCreatePrompt(p, l)
    \/ \E p \in Text, l \in OptTitleLists : CallGetMovieRecommendations(p, l)
    \/ \E g \in Text, m \in OptTexts : CallGenre(g, m)
    \/ \E m \in Text, t \in OptTexts : CallMood(m, t)
    \/ \E o \in Outcomes : ApiRespond(o)

SpecApi == InitApi /\ [][NextApi]_vars

----------------------------------------------------------------------------
(* interactive_mode *)

StopWord == <<"s", "t", "o", "p">>                                  \* 'stop' (line 148)
GenreWord == <<"z", "a", "n", "r">>                                 \* 'zhanr' (line 151)
MoodWord == <<"n", "a", "s", "t", "r", "o", "e", "n", "i", "e">>    \* 'nastroenie' (line 165)
PrefsWord == <<"p", "r", "e", "d", "p", "o", "c", "h", "t", "e", "n", "i", "y", "a">>  \* 'predpochteniya' (line 179)
ModeWords == {GenreWord, MoodWord, PrefsWord}

\* lines the user can type: short free texts, the command words as written in
\* the menu and in other case or with blanks around, a list of two titles
CommandLines ==
    { StopWord, <<" ", "S", "T", "O", "P", " ">>,
      GenreWord, <<"Z", "a", "n", "r", " ">>,
      MoodWord, <<" ">> \o MoodWord,
      PrefsWord, <<"P">> \o Tail(PrefsWord) }
InputLines == Text \cup CommandLines \cup { <<"a", ",", " ", "A">> }
\* answers to the prompts of a mode command: short texts, a padded text, a
\* list of two titles, the exit word
ArgLines == StrUpTo(MaxArgLen) \cup { <<" ", "a", " ">>, <<"a", ",", " ", "A">>, StopWord }

Farewell == [kind |-> "farewell"]
Thinking == [kind |-> "thinking"]
Failed == [kind |-> "failed"]
Printed(t) == [kind |-> "text", text |-> t]
Header(cmd, a) ==
    IF cmd = GenreWord THEN [kind |-> "header", of |-> "genre", name |-> a.val]
    ELSE IF cmd = MoodWord THEN [kind |-> "header", of |-> "mood", name |-> a.val]
    ELSE [kind |-> "header", of |-> "you", name |-> <<>>]

OnExceptionContinue(exc) ==
    [state |-> "awaiting", printed |-> << [kind |-> "error", exc |-> exc] >>]

\* lines 204-208: the two except clauses of the loop body
OnException(exc) ==
    IF exc = "KeyboardInterrupt"
    THEN [state |-> "stopped", printed |-> <<Farewell>>]
    ELSE [state |-> "awaiting", printed |-> << [kind |-> "error", exc |-> exc] >>]

PrintOutcomeNotNone(recommendation, cmd, a) ==
    IF ~recommendation.isNone
    THEN <<Header(cmd, a), Printed(recommendation.val)>>
    ELSE <<Failed>>

\* `if recommendation: ... else: ...` of each branch (lines 159-163, 173-177, 188-192, 198-202)
PrintOutcome(recommendation, cmd, a) ==
    IF Truthy(recommendation)
    THEN <<Header(cmd, a), Printed(recommendation.val)>>
    ELSE <<Failed>>

\* line 154, 168: `x if x else None`
OrNone(t) == IF t # <<>> THEN Some(t) ELSE None

\* line 183 and the argument of line 186
LikedMoviesList(liked_input) ==
    IF liked_input # <<>>
    THEN LET parts == Split(liked_input, ",")
         IN  Some([i \in 1..Len(parts) |-> Strip(parts[i])])
    ELSE None

\* interactive_mode entered (main, lines 211-229; lines 133-142)
Init ==
    /\ state = "awaiting"
    /\ pc = "command"
    /\ command = <<>>
    /\ arg1 = None
    /\ arg2 = None
    /\ lines = <<>>
    /\ liked_movies = <<>>
    /\ method = ""
    /\ args = NoArgs
    /\ gmr = NoCall
    /\ request = NoRequest
    /\ response = NoResponse
    /\ result = NoResult
    /\ out = <<>>
    /\ posts = 0
    /\ calls = 0
    /\ event = "init"

NoApi == UNCHANGED <<method, args>>

\* line 146 returns `line`; lines 148-151, 165, 179, 193-196
ReadCommand(line) ==
    /\ state = "awaiting"
    /\ pc = "command"
    /\ lines' = <<line>>
    /\ event' = "read"
    /\ arg1' = None
    /\ arg2' = None
    /\ LET cmd == Lower(Strip(line))
       IN  /\ command' = cmd
           /\ IF cmd = StopWord
              THEN /\ state' = "stopped"
                   /\ pc' = "done"
                   /\ out' = <<Farewell>>
                   /\ posts' = 0
                   /\ calls' = 0
                   /\ gmr' = NoCall
                   /\ request' = NoRequest
                   /\ response' = NoResponse
                   /\ result' = NoResult
              ELSE IF cmd \in ModeWords
              THEN /\ state' = state
                   /\ pc' = "arg1"
                   /\ out' = <<>>
                   /\ posts' = 0
                   /\ calls' = 0
                   /\ gmr' = NoCall
                   /\ request' = NoRequest
                   /\ response' = NoResponse
                   /\ result' = NoResult
              ELSE /\ state' = state
                   /\ out' = <<Thinking>>
                   /\ GmrBegin(cmd, Some(liked_movies), 0)
    /\ UNCHANGED liked_movies
    /\ NoApi

\* lines 152, 166, 180: the first input() of a mode command returns `line`
ReadArg1(line) ==
    /\ state = "awaiting"
    /\ pc = "arg1"
    /\ lines' = Append(lines, line)
    /\ arg1' = Some(Strip(line))
    /\ pc' = "arg2"
    /\ event' = "read"
    /\ UNCHANGED <<state, command, arg2, liked_movies, gmr, request, response, result,
                   out, posts, calls>>
    /\ NoApi

ReadArg2Remember(line) ==
    /\ state = "awaiting"
    /\ pc = "arg2"
    /\ lines' = Append(lines, line)
    /\ arg2' = Some(Strip(line))
    /\ event' = "read"
    /\ out' = Append(out, Thinking)
    /\ IF command = GenreWord
       THEN GmrBegin(GenrePreferences(arg1.val, OrNone(Strip(line))), None, calls)
       ELSE IF command = MoodWord
       THEN GmrBegin(MoodPreferences(arg1.val, OrNone(Strip(line))), None, calls)
       ELSE GmrBegin(arg1.val, LikedMoviesList(Strip(line)), calls)
    /\ liked_movies' =
           IF command = PrefsWord /\ Truthy(LikedMoviesList(Strip(line)))
           THEN liked_movies \o LikedMoviesList(Strip(line)).val
           ELSE liked_movies
    /\ UNCHANGED <<state, command, arg1>>
    /\ NoApi

\* lines 153-157, 167-171, 181-186: the second input() of a mode command
\* returns `line`, and the request is made
ReadArg2(line) ==
    /\ state = "awaiting"
    /\ pc = "arg2"
    /\ lines' = Append(lines, line)
    /\ arg2' = Some(Strip(line))
    /\ event' = "read"
    /\ out' = Append(out, Thinking)
    /\ IF command = GenreWord
       THEN GmrBegin(GenrePreferences(arg1.val, OrNone(Strip(line))), None, calls)
       ELSE IF command = MoodWord
       THEN GmrBegin(MoodPreferences(arg1.val, OrNone(Strip(line))), None, calls)
       ELSE GmrBegin(arg1.val, LikedMoviesList(Strip(line)), calls)
    /\ UNCHANGED <<state, command, arg1, liked_movies>>
    /\ NoApi

\* an exception raised by input(): EOFError at end of input, KeyboardInterrupt
InputExceptions == {"EOFError", "KeyboardInterrupt"}

\* a blocking input() (line 146, 152-153, 166-167, 180-181) raises exc
InputRaises(exc) ==
    /\ state = "awaiting"
    /\ pc \in {"command", "arg1", "arg2"}
    /\ LET h == OnException(exc)
       IN  /\ state' = h.state
           /\ pc' = IF h.state = "stopped" THEN "done" ELSE "command"
           /\ out' = (IF pc = "command" THEN <<>> ELSE out) \o h.printed
    /\ event' = IF exc = "KeyboardInterrupt" THEN "interrupt" ELSE "error"
    /\ lines' = IF pc = "command" THEN <<>> ELSE lines
    /\ posts' = IF pc = "command" THEN 0 ELSE posts
    /\ calls' = IF pc = "command" THEN 0 ELSE calls
    /\ UNCHANGED <<command, arg1, arg2, liked_movies, gmr, request, response, result>>
    /\ NoApi

RespondRetry(o) ==
    /\ state = "awaiting"
    /\ pc = "inflight"
    /\ response' = o
    /\ LET r == GetMovieRecommendationsEnd(o)
       IN  IF r.value.isNone /\ r.raises = "none" /\ posts < 2
           THEN /\ posts' = posts + 1
                /\ UNCHANGED <<state, pc, out, result, event, request, gmr, lines, arg1, arg2>>
           ELSE /\ result' = r
                /\ event' = IF r.raises = "KeyboardInterrupt" THEN "interrupt"
                            ELSE IF r.raises # "none" THEN "error" ELSE "returned"
                /\ IF r.raises # "none"
                   THEN LET h == OnException(r.raises)
                        IN  /\ state' = h.state
                            /\ pc' = IF h.state = "stopped" THEN "done" ELSE "command"
                            /\ out' = out \o r.printed \o h.printed
                   ELSE /\ state' = state
                        /\ pc' = "command"
                        /\ out' = out \o r.printed \o PrintOutcome(r.value, command, arg1)
                /\ request' = NoRequest
                /\ gmr' = NoCall
                /\ lines' = <<>>
                /\ arg1' = None
                /\ arg2' = None
                /\ posts' = posts
    /\ UNCHANGED <<command, liked_movies, calls>>
    /\ NoApi

\* requests.post ends with o: get_movie_recommendations ends (lines 68-82), the
\* branch prints the outcome, and the loop goes back to line 146; the locals
\* of the iteration are dead from here on
Respond(o) ==
    /\ state = "awaiting"
    /\ pc = "inflight"
    /\ response' = o
    /\ LET r == GetMovieRecommendationsEnd(o)
       IN  /\ result' = r
           /\ event' = IF r.raises = "KeyboardInterrupt" THEN "interrupt"
                       ELSE IF r.raises # "none" THEN "error" ELSE "returned"
           /\ IF r.raises # "none"
              THEN LET h == OnException(r.raises)
                   IN  /\ state' = h.state
                       /\ pc' = IF h.state = "stopped" THEN "done" ELSE "command"
                       /\ out' = out \o r.printed \o h.printed
              ELSE /\ state' = state
                   /\ pc' = "command"
                   /\ out' = out \o r.printed \o PrintOutcome(r.value, command, arg1)
    /\ request' = NoRequest
    /\ gmr' = NoCall
    /\ lines' = <<>>
    /\ arg1' = None
    /\ arg2' = None
    /\ UNCHANGED <<command, liked_movies, posts, calls>>
    /\ NoApi

Next ==
    \/ \E line \in InputLines : ReadCommand(line)
    \/ \E line \in ArgLines : ReadArg1(line)
    \/ \E line \in ArgLines : ReadArg2(line)
    \/ \E exc \in InputExceptions : InputRaises(exc)
    \/ \E o \in Outcomes : Respond(o)

Spec == Init /\ [][Next]_vars

----------------------------------------------------------------------------
(* Properties of the methods called directly (checked under SpecApi) *)

\* the response is a 200 whose body is JSON with choices[0].message.content present
HasContent(o) ==
    /\ o.kind = "response"
    /\ o.status = 200
    /\ o.body.json
    /\ "choices" \in DOMAIN o.body.data
    /\ Len(o.body.data.choices) > 0
    /\ "message" \in DOMAIN o.body.data.choices[1]
    /\ "content" \in DOMAIN o.body.data.choices[1].message

\* the failures of the HTTP exchange: the POST raised a network error or a
\* timeout, the status is not 200, the body is not JSON, or a field is missing
FailedExchange(o) ==
    \/ o.kind = "raise" /\ o.exc \in {"ConnectionError", "Timeout"}
    \/ o.kind = "response" /\ ~HasContent(o)

GmrReturned == pc = "returned" /\ method = "get_movie_recommendations"

\* C1: whenever the HTTP exchange of get_movie_recommendations failed (network
\* exception, timeout, non-200 status, body that is not JSON, 'choices' missing
\* or empty, 'message' or 'content' missing), the call raised nothing to its
\* caller and returned None; no exception deriving from Exception ever leaves
\* the call (a KeyboardInterrupt raised during the POST is the one thing that does).
C1_FailureReturnsNone ==
    /\ (GmrReturned /\ FailedExchange(response))
           => (result.raises = "none" /\ result.value.isNone)
    /\ GmrReturned => result.raises \in {"none", "KeyboardInterrupt"}

\* C1 witness: a 200 response whose 'choices' list is empty was answered with None
C1_Witness ==
    /\ GmrReturned
    /\ response.kind = "response"
    /\ response.status = 200
    /\ response.body.json
    /\ "choices" \in DOMAIN response.body.data
    /\ response.body.data.choices = <<>>
    /\ result.raises = "none"
    /\ result.value.isNone

\* C2: on a 200 response of the shape {choices:[{message:{content: text}}, ...]}
\* get_movie_recommendations returns the content of the first choice,
\* unmodified, however many choices follow.
C2_ReturnsFirstContent ==
    (GmrReturned /\ HasContent(response)
       /\ ~response.body.data.choices[1].message.content.isNone)
        => /\ result.raises = "none"
           /\ ~result.value.isNone
           /\ result.value.val = response.body.data.choices[1].message.content.val

\* C2 witness: two choices, the second one carrying another text; the first text came back
C2_Witness ==
    /\ GmrReturned
    /\ HasContent(response)
    /\ Len(response.body.data.choices) = 2
    /\ "message" \in DOMAIN response.body.data.choices[2]
    /\ result.value = Some(<<"A (2020) - desc">>)
    /\ response.body.data.choices[2].message.content = Some(<<"C (1980) - desc">>)

Contains(text, token) == \E i \in 1..Len(text) : <<text[i]>> = token

PromptReturned == pc = "returned" /\ method = "_create_recommendation_prompt"

\* C3: for a non-empty preference text and a liked-movies list that is None or
\* empty, _create_recommendation_prompt returns exactly the base line, the
\* preference text and the 'matching these preferences' suffix, and the result
\* holds neither the liked-movies line nor the 'similar in style' phrase.
C3_NoLikedPrompt ==
    (/\ PromptReturned
     /\ args.user_preferences # <<>>
     /\ (args.liked_movies.isNone \/ args.liked_movies.val = <<>>))
        => /\ result.value.val = BaseLine \o args.user_preferences \o MatchingSuffix
           /\ ~Contains(result.value.val, LikedLine)
           /\ ~Contains(result.value.val, SimilarSuffix)

\* C3 witness: the call with the empty list (not None) and a non-empty text
C3_Witness ==
    /\ PromptReturned
    /\ args.user_preferences = <<"a", ",">>
    /\ ~args.liked_movies.isNone
    /\ args.liked_movies.val = <<>>
    /\ result.value.val[Len(result.value.val)] = MatchingSuffix[1]

\* J is the titles of list in order, each unmodified, with ", " between neighbours
IsJoined(J, list) ==
    LET n == Len(list)
        start[i \in 1..n] == IF i = 1 THEN 1 ELSE start[i - 1] + Len(list[i - 1]) + 2
    IN  /\ Len(J) = start[n] + Len(list[n]) - 1
        /\ \A i \in 1..n : SubSeq(J, start[i], start[i] + Len(list[i]) - 1) = list[i]
        /\ \A i \in 1..(n - 1) :
               SubSeq(J, start[i] + Len(list[i]), start[i] + Len(list[i]) + 1) = <<",", " ">>

\* C4: for a non-empty liked-movies list the prompt is the base line with the
\* preference text, the liked-movies line, the titles joined with ', ' in input
\* order and unmodified, and right after them the 'similar in style' phrase;
\* the 'matching these preferences' suffix is not appended.
C4_LikedPrompt ==
    (/\ PromptReturned
     /\ ~args.liked_movies.isNone
     /\ args.liked_movies.val # <<>>)
        => LET prompt == result.value.val
               head == BaseLine \o args.user_preferences \o LikedLine
               J == SubSeq(prompt, Len(head) + 1, Len(prompt) - 1)
           IN  /\ Len(prompt) >= Len(head) + 1
               /\ SubSeq(prompt, 1, Len(head)) = head
               /\ IsJoined(J, args.liked_movies.val)
               /\ <<prompt[Len(prompt)]>> = SimilarSuffix
               /\ ~Contains(prompt, MatchingSuffix)

\* C4 witness: two different titles, one of them holding a comma itself
C4_Witness ==
    /\ PromptReturned
    /\ ~args.liked_movies.isNone
    /\ args.liked_movies.val = << <<"A", ",">>, <<"a">> >>
    /\ result.value.val =
           BaseLine \o args.user_preferences \o LikedLine
               \o <<"A", ",", ",", " ", "a">> \o SimilarSuffix

GenreCalled == method = "get_genre_based_recommendations"
MoodCalled == method = "get_mood_based_recommendations"

\* what get_movie_recommendations gives back for the outcome o of its POST
ExpectedValue(o) ==
    IF HasContent(o) THEN o.body.data.choices[1].message.content ELSE None

\* the wrappers delegate: one call of get_movie_recommendations, no liked-movies
\* list, its result returned unchanged
WrapperDelegates ==
    /\ (pc = "inflight" /\ (GenreCalled \/ MoodCalled))
           => (calls = 1 /\ posts = 1 /\ gmr.active /\ gmr.liked_movies.isNone)
    /\ (pc = "returned" /\ (GenreCalled \/ MoodCalled)
           /\ ~(response.kind = "raise" /\ response.exc = "KeyboardInterrupt"))
           => (calls = 1 /\ result.raises = "none" /\ result.value = ExpectedValue(response))

\* C5 as stated: the preference text has the second part whenever the optional
\* second argument is set (is not None).
C5_Original ==
    /\ WrapperDelegates
    /\ (pc = "inflight" /\ GenreCalled)
           => gmr.user_preferences =
                  IF args.mood.isNone THEN GenrePrefix \o args.genre
                  ELSE GenrePrefix \o args.genre \o GenreMoodInfix \o args.mood.val
    /\ (pc = "inflight" /\ MoodCalled)
           => gmr.user_preferences =
                  IF args.time_of_day.isNone THEN MoodPrefix \o args.mood
                  ELSE MoodPrefix \o args.mood \o MoodTimeInfix \o args.time_of_day.val

\* C5 (amended): the wrappers delegate to one call of get_movie_recommendations
\* with no liked-movies list and return its result unchanged; the preference
\* text is 'zhanr: X' (resp. 'nastroenie: X') when the second argument is None
\* or the empty text, and 'zhanr: X, nastroenie: Y' (resp. 'nastroenie: X,
\* vremya prosmotra: Y') when it is a non-empty text.
C5_WrapperPreferences ==
    /\ WrapperDelegates
    /\ (pc = "inflight" /\ GenreCalled)
           => gmr.user_preferences =
                  IF args.mood.isNone \/ args.mood.val = <<>> THEN GenrePrefix \o args.genre
                  ELSE GenrePrefix \o args.genre \o GenreMoodInfix \o args.mood.val
    /\ (pc = "inflight" /\ MoodCalled)
           => gmr.user_preferences =
                  IF args.time_of_day.isNone \/ args.time_of_day.val = <<>>
                  THEN MoodPrefix \o args.mood
                  ELSE MoodPrefix \o args.mood \o MoodTimeInfix \o args.time_of_day.val

\* C5 witness: the genre wrapper was called with the empty text as mood and
\* passed 'zhanr: a' alone
C5_Witness ==
    /\ pc = "inflight"
    /\ GenreCalled
    /\ args.genre = <<"a">>
    /\ ~args.mood.isNone
    /\ args.mood.val = <<>>
    /\ gmr.user_preferences = GenrePrefix \o <<"a">>

----------------------------------------------------------------------------
(* Properties of interactive_mode (checked under Spec) *)

LastPrinted == out[Len(out)]

\* C6: the loop has the states 'awaiting' and 'stopped'; it stops exactly when
\* the exit command is read or a KeyboardInterrupt is raised (in input() or
\* while the request is in flight), printing the farewell; any other exception
\* is reported and leaves it awaiting the next command; once stopped it takes
\* no further step (no input read, no request sent).
C6_LoopStates ==
    [][ /\ state = "awaiting"
        /\ state' \in {"awaiting", "stopped"}
        /\ (state' = "stopped") <=>
               \/ event' = "interrupt"
               \/ pc = "command" /\ event' = "read" /\ Lower(Strip(lines'[1])) = StopWord
        /\ (state' = "stopped") => (LastPrinted' = Farewell /\ pc' = "done")
        /\ (event' = "error") =>
               /\ state' = "awaiting"
               /\ pc' = "command"
               /\ LastPrinted'.kind = "error"
      ]_vars

\* C6 witness: the loop stopped on a KeyboardInterrupt raised while the
\* request was in flight, and said farewell
C6_Witness ==
    /\ state = "stopped"
    /\ event = "interrupt"
    /\ response.kind = "raise"
    /\ posts = 1
    /\ LastPrinted = Farewell

IsOutcome(item) == item.kind \in {"text", "failed"}
Shown == SelectSeq(out, IsOutcome)
RequestReturned == state = "awaiting" /\ pc = "command" /\ event = "returned"

\* C7 as stated: after a request that returned, exactly one outcome is printed
\* before the next command is read: the returned text whenever a text was
\* returned, the failure message whenever None was returned.
C7_Original ==
    RequestReturned =>
        /\ Len(Shown) = 1
        /\ IF ~result.value.isNone
           THEN Shown[1] = Printed(result.value.val)
           ELSE Shown[1] = Failed

\* C7 (amended): after a request that returned, exactly one outcome is printed
\* before the next command is read: the returned text, verbatim, whenever a
\* non-empty text was returned, the failure message whenever None or the empty
\* text was returned.
C7_PrintsOutcome ==
    RequestReturned =>
        /\ Len(Shown) = 1
        /\ IF ~result.value.isNone /\ result.value.val # <<>>
           THEN Shown[1] = Printed(result.value.val)
           ELSE Shown[1] = Failed

\* C7 witness: the request returned the empty text and the failure message was printed
C7_Witness ==
    /\ RequestReturned
    /\ ~result.value.isNone
    /\ result.value.val = <<>>
    /\ Shown = <<Failed>>

\* C8: a line that is none of the four commands is forwarded as the preference
\* text as the user entered it, with no further line read; a mode command
\* reads exactly two further lines before its one request.
C8_ForwardsUnmodified ==
    (state = "awaiting" /\ pc = "inflight") =>
        /\ calls = 1
        /\ IF command \in ModeWords
           THEN Len(lines) = 3
           ELSE /\ Len(lines) = 1
                /\ gmr.user_preferences = lines[1]

\* the request a whole iteration sends, from the lines it read alone
RequestOf(ls) ==
    LET cmd == Lower(Strip(ls[1]))
    IN  IF cmd = GenreWord
        THEN PostArgs(CreateRecommendationPrompt(
                 GenrePreferences(Strip(ls[2]), OrNone(Strip(ls[3]))), None))
        ELSE IF cmd = MoodWord
        THEN PostArgs(CreateRecommendationPrompt(
                 MoodPreferences(Strip(ls[2]), OrNone(Strip(ls[3]))), None))
        ELSE IF cmd = PrefsWord
        THEN PostArgs(CreateRecommendationPrompt(Strip(ls[2]), LikedMoviesList(Strip(ls[3]))))
        ELSE PostArgs(BaseLine \o cmd \o MatchingSuffix)

\* C9: no retries: a call of get_movie_recommendations sends at most one POST,
\* an iteration makes at most one call, and after a failed request the failure
\* message is printed and the loop awaits the next command with nothing in flight.
C9_NoRetry ==
    /\ posts <= 1
    /\ calls <= 1
    /\ posts <= calls
    /\ (RequestReturned /\ result.value.isNone)
           => (posts = 1 /\ Shown = <<Failed>> /\ request = NoRequest /\ ~gmr.active)

\* C9 witness: a request answered with status 500 was not sent again
C9_Witness ==
    /\ RequestReturned
    /\ response.kind = "response"
    /\ response.status = 500
    /\ posts = 1
    /\ Shown = <<Failed>>

\* C10: the loop's liked_movies list is empty in every reachable state, a
\* request of the free-text branch carries the no-liked-movies suffix, and the
\* request of any command is determined by the lines read in its iteration.
C10_NoCarriedState ==
    /\ liked_movies = <<>>
    /\ (state = "awaiting" /\ pc = "inflight") => request = RequestOf(lines)

\* C10 witness: preferences-mode has sent a request with liked titles, and the
\* loop's list is still empty
C10_Witness ==
    /\ state = "awaiting"
    /\ pc = "inflight"
    /\ command = PrefsWord
    /\ ~gmr.liked_movies.isNone
    /\ gmr.liked_movies.val = << <<"a">>, <<"A">> >>
    /\ liked_movies = <<>>

====
